---- MODULE Spec2Model ----
(***************************************************************************)
(* Model of simulate_data.py: the batch sequencer (generate_batches), the  *)
(* concurrent load driver (insert_records_concurrent, insert_batch_pool)   *)
(* over a psycopg2 SimpleConnectionPool and a ThreadPoolExecutor, and the  *)
(* sequential load driver (insert_records) and the simulation loop         *)
(* (simulate_production).                                                  *)
(*                                                                         *)
(* A record is a freshly drawn (amount, description) pair whose content no *)
(* control decision reads, so a batch is modelled by its length.           *)
(***************************************************************************)
EXTENDS Integers, Sequences, FiniteSets, TLC

\* Bounds of the explored inputs: num_records and batch_size of the
\* sequencer and of the sequential load; num_records (and batch_size) and
\* num_workers of the concurrent load; the number of calls the database or
\* the network lets fail in one load.
MaxRecords == 6
MaxBatch == 4
MaxConcRecords == 2
MaxWorkers == 2
MaxFaults == 2
\* The simulation loop: the number of ticks explored, and the number of
\* records execute_values puts into one INSERT statement (its page size).
MaxTicks == 2
PageSize == 1

VARIABLES
    num_records,    \* argument num_records of the running function
    batch_size,     \* argument batch_size
    num_workers,    \* argument num_workers of insert_records_concurrent
    gen,            \* frame of the generate_batches generator
    yielded,        \* sizes of the batches the generator has yielded, in order
    mpc,            \* position of the calling thread in the running function
    jobs,           \* per submitted batch: its future and what happened to it
    queue,          \* work queue of the ThreadPoolExecutor (batch numbers)
    th,             \* frames of the executor's worker threads
    pool,           \* the SimpleConnectionPool object
    conns,          \* the database connections ever opened, by number
    table,          \* batches whose rows are committed in the table
    faults,         \* number of faults the database has injected so far
    seqf            \* frame of insert_records: loop index i, len(records)

vars == <<num_records, batch_size, num_workers, gen, yielded, mpc, jobs, queue,
          th, pool, conns, table, faults, seqf>>

genVars == <<num_records, batch_size, gen, yielded>>
\* What a worker thread never touches.
mainVars == <<num_records, batch_size, num_workers, gen, yielded, seqf, mpc>>
concVars == <<num_workers, mpc, jobs, queue, th, pool, conns, table,
              faults>>
poolVars == <<num_workers, queue, th, pool>>

----------------------------------------------------------------------------
\* generate_batches (simulate_data.py 153-167)

\* The generator frame right after the call: batch = [], loop not yet entered.
\* pos: "run" executing, "yield" suspended at line 164, "last" suspended at
\* line 167, "done" exhausted.
generate_batches_init == [i |-> 0, batch |-> 0, pos |-> "run"]

\* One iteration of the for loop (lines 159-164): draw a record, append it,
\* suspend at the yield when i % batch_size == 0.
generate_batches_iter(g, n, bs) ==
    LET i2 == g.i + 1
        b2 == g.batch + 1
    IN  IF i2 % bs = 0
        THEN [i |-> i2, batch |-> b2, pos |-> "yield"]
        ELSE [i |-> i2, batch |-> b2, pos |-> "run"]

\* A variant of the tail that yields the last list even when it is empty.
generate_batches_tail_always(g) ==
    [g EXCEPT !.pos = "last"]

\* After the loop (lines 166-167): yield what is left, if anything.
generate_batches_tail(g) ==
    IF g.batch > 0 THEN [g EXCEPT !.pos = "last"] ELSE [g EXCEPT !.pos = "done"]

\* One step of the generator's code from frame g.
generate_batches_step(g, n, bs) ==
    CASE g.pos = "yield" -> [g EXCEPT !.batch = 0, !.pos = "run"]   \* line 165
      [] g.pos = "last"  -> [g EXCEPT !.pos = "done"]
      [] g.pos = "run" /\ g.i < n -> generate_batches_iter(g, n, bs)
      [] g.pos = "run" /\ g.i >= n -> generate_batches_tail(g)
      [] OTHER -> g

\* Is the frame suspended at a yield, with a batch to hand over?
Suspended(g) == g.pos \in {"yield", "last"}

\* next(generator): resume the frame and run it to its next yield or to
\* exhaustion.
RECURSIVE RunToYield(_, _, _)
RunToYield(g, n, bs) ==
    IF Suspended(g) \/ g.pos = "done" THEN g
    ELSE RunToYield(generate_batches_step(g, n, bs), n, bs)

generate_batches_next(g, n, bs) ==
    IF g.pos = "done" THEN g
    ELSE RunToYield(generate_batches_step(g, n, bs), n, bs)

----------------------------------------------------------------------------
\* Functions with a finite domain, as Python dicts.

DictSet(d, k, v) == [x \in DOMAIN d \cup {k} |-> IF x = k THEN v ELSE d[x]]
DictDel(d, k) == [x \in DOMAIN d \ {k} |-> d[x]]
EmptyDict == [x \in {} |-> 0]

----------------------------------------------------------------------------
\* A database connection (psycopg2 connection object), as the calls at lines
\* 141-151 use it.  status is the transaction status of the session:
\* "IDLE" no transaction, "INTRANS" a transaction is open, "INERROR" the open
\* transaction is aborted, "CLOSED" the connection is closed or lost.
\* pending is the set of batches inserted in the open transaction.

NewConn == [status |-> "IDLE", pending |-> {}]

\* cs with connection c lost: the server discards the open transaction.
Lose(cs, c) == [cs EXCEPT ![c] = [status |-> "CLOSED", pending |-> {}]]

\* execute_values(cur, insert_sql, batch) on connection c (line 143): the
\* possible results, each the connections afterwards, whether it raised, and
\* whether the database or the network failed (fault) rather than the call
\* being refused for the state the connection is in.
execute_values(cs, c, b) ==
    CASE cs[c].status = "CLOSED" -> {[conns |-> cs, raised |-> TRUE, fault |-> FALSE]}
      [] cs[c].status = "INERROR" -> {[conns |-> cs, raised |-> TRUE, fault |-> FALSE]}
      [] OTHER ->
           { [conns |-> [cs EXCEPT ![c] = [status |-> "INTRANS",
                                           pending |-> @.pending \cup {b}]],
              raised |-> FALSE, fault |-> FALSE],
             \* the statement fails: the transaction is aborted
             [conns |-> [cs EXCEPT ![c].status = "INERROR"], raised |-> TRUE,
              fault |-> TRUE],
             \* the connection is lost
             [conns |-> Lose(cs, c), raised |-> TRUE, fault |-> TRUE] }

\* conn.commit() on connection c (line 144) with table contents tb.
commit(cs, tb, c) ==
    CASE cs[c].status = "CLOSED" ->
           {[conns |-> cs, table |-> tb, raised |-> TRUE, fault |-> FALSE]}
      \* nothing to commit: no statement is sent
      [] cs[c].status = "IDLE" ->
           {[conns |-> cs, table |-> tb, raised |-> FALSE, fault |-> FALSE]}
      \* COMMIT of an aborted transaction rolls it back and reports no error
      [] cs[c].status = "INERROR" ->
           {[conns |-> [cs EXCEPT ![c] = NewConn], table |-> tb, raised |-> FALSE,
             fault |-> FALSE]}
      [] OTHER ->
           { [conns |-> [cs EXCEPT ![c] = NewConn],
              table |-> tb \cup cs[c].pending, raised |-> FALSE, fault |-> FALSE],
             \* the commit is refused: the transaction is rolled back
             [conns |-> [cs EXCEPT ![c] = NewConn], table |-> tb, raised |-> TRUE,
              fault |-> TRUE],
             \* the connection is lost
             [conns |-> Lose(cs, c), table |-> tb, raised |-> TRUE, fault |-> TRUE] }

\* conn.rollback() on connection c (line 148).
rollback(cs, c) ==
    CASE cs[c].status = "CLOSED" -> {[conns |-> cs, raised |-> TRUE, fault |-> FALSE]}
      [] cs[c].status = "IDLE" -> {[conns |-> cs, raised |-> FALSE, fault |-> FALSE]}
      [] OTHER ->
           { [conns |-> [cs EXCEPT ![c] = NewConn], raised |-> FALSE, fault |-> FALSE],
             \* the connection is lost
             [conns |-> Lose(cs, c), raised |-> TRUE, fault |-> TRUE] }

----------------------------------------------------------------------------
\* psycopg2.pool.SimpleConnectionPool(1, num_workers, **db_params) (line 182).
\* SimpleConnectionPool publishes AbstractConnectionPool's _getconn, _putconn
\* and _closeall as they are, with no lock around them.
\*   idle   the list _pool of connections ready to hand out
\*   used   the dict _used, key -> connection
\*   rused  the dict _rused, id(connection) -> key
\*   keys   the counter _keys
\*   closed the flag closed

minconn == 1

\* A pool built with one connection fewer than there are workers.
maxconnShort(w) == w - 1

\* The capacity: the second argument of the constructor.
maxconn(w) == w

\* The pool after its constructor: minconn connections opened into _pool.
SimpleConnectionPool ==
    [idle |-> <<1>>, used |-> EmptyDict, rused |-> EmptyDict, keys |-> 0,
     closed |-> FALSE]

\* _getconn after the key is drawn: the possible results, each the pool and
\* the connections afterwards, the connection returned (0 when it raised).
getconn(p, cs, key, cap) ==
    CASE key \in DOMAIN p.used ->
           {[pool |-> p, conns |-> cs, conn |-> p.used[key], fault |-> FALSE]}
      [] p.idle # <<>> ->
           LET c == p.idle[Len(p.idle)]
           IN  {[pool |-> [p EXCEPT !.idle = SubSeq(@, 1, Len(@) - 1),
                                    !.used = DictSet(@, key, c),
                                    !.rused = DictSet(@, c, key)],
                 conns |-> cs, conn |-> c, fault |-> FALSE]}
      [] Cardinality(DOMAIN p.used) = cap ->
           {[pool |-> p, conns |-> cs, conn |-> 0, fault |-> FALSE]} \* pool exhausted
      [] OTHER ->
           LET c == Len(cs) + 1
           IN  { \* _connect(key) opens a new connection
                 [pool |-> [p EXCEPT !.used = DictSet(@, key, c),
                                     !.rused = DictSet(@, c, key)],
                  conns |-> Append(cs, NewConn), conn |-> c, fault |-> FALSE],
                 \* psycopg2.connect raises
                 [pool |-> p, conns |-> cs, conn |-> 0, fault |-> TRUE] }

\* _putconn(conn): the possible results, each the pool and the connections
\* afterwards and whether it raised.
putconn(p, cs, c) ==
    IF p.closed \/ c \notin DOMAIN p.rused
    THEN {[pool |-> p, conns |-> cs, raised |-> TRUE, fault |-> FALSE]}
    ELSE
      LET key == p.rused[c]
          \* the two del statements that end _putconn
          forget(q) == [q EXCEPT !.used = DictDel(@, key), !.rused = DictDel(@, c)]
          done(q, ds) == [pool |-> IF key \in DOMAIN q.used THEN forget(q) ELSE q,
                          conns |-> ds,
                          raised |-> key \notin DOMAIN q.used,
                          fault |-> FALSE]
      IN  IF Len(p.idle) < minconn
          THEN CASE cs[c].status = "CLOSED" -> {done(p, cs)}
                 [] cs[c].status = "IDLE" ->
                      {done([p EXCEPT !.idle = Append(@, c)], cs)}
                 [] OTHER ->
                      \* a connection not idle is rolled back before it is kept
                      { IF r.raised
                        THEN [pool |-> p, conns |-> r.conns, raised |-> TRUE,
                              fault |-> r.fault]
                        ELSE done([p EXCEPT !.idle = Append(@, c)], r.conns)
                        : r \in rollback(cs, c) }
          ELSE {done(p, Lose(cs, c))}

\* _closeall(): every connection in _pool and in _used is closed.
closeall(p, cs) ==
    LET mine == {p.idle[k] : k \in 1..Len(p.idle)} \cup {p.used[k] : k \in DOMAIN p.used}
    IN  [pool |-> [p EXCEPT !.closed = TRUE],
         conns |-> [c \in 1..Len(cs) |->
                      IF c \in mine THEN [status |-> "CLOSED", pending |-> {}]
                      ELSE cs[c]]]

----------------------------------------------------------------------------
\* The results the fault budget still allows, and the budget after one.
Allowed(S) == {r \in S : r.fault => faults < MaxFaults}
Spend(r) == IF r.fault THEN faults + 1 ELSE faults

----------------------------------------------------------------------------
\* insert_batch_pool (lines 134-151), run by a worker thread of the executor.
\* A thread frame: pc the position, task the batch it was given, k the value
\* of _keys read by _getkey, key the key _getkey returned, conn the local
\* conn (0 is None), exc whether an exception is propagating.  k and key are
\* set back to 0 once they are dead.

\* The frame of insert_records before its loop: i unset, records = [].
NoFrame == [i |-> 0, records |-> 0]

IdleFrame == [pc |-> "idle", task |-> 0, k |-> 0, key |-> 0, conn |-> 0, exc |-> FALSE]

\* An executor that runs one worker more than it was asked for.
ThreadsOversized == 1..(num_workers + 1)

\* ThreadPoolExecutor(max_workers=num_workers) (line 184): the worker threads.
Threads == 1..num_workers

\* A job: size of the batch, state of its future ("pending", "running",
\* "ok" result set, "exc" exception set), started the number of times
\* insert_batch_pool was entered for it, execs the number of execute_values
\* calls made for it, outcome what the insert came to ("none" yet, "ok" the
\* try block completed, "failed" the except block was entered).
NewJob(n) == [size |-> n, fut |-> "pending", started |-> 0, execs |-> 0,
              outcome |-> "none"]

\* An idle worker of the executor takes the next work item and enters
\* insert_batch_pool: conn = None (line 139).  Idle workers are
\* interchangeable (their frames are equal), so the item goes to the first.
T_Start(t) ==
    /\ th[t].pc = "idle"
    /\ \A u \in Threads : u < t => th[u].pc # "idle"
    /\ queue # <<>>
    /\ LET b == Head(queue)
       IN  /\ th' = [th EXCEPT ![t] = [IdleFrame EXCEPT !.pc = "getconn", !.task = b]]
           /\ jobs' = [jobs EXCEPT ![b].fut = "running", ![b].started = @ + 1]
    /\ queue' = Tail(queue)
    /\ UNCHANGED <<mainVars, pool, conns, table, faults>>

\* connection_pool.getconn() (line 141) enters _getconn: the closed check,
\* then _getkey reads _keys.
T_GetconnEnter(t) ==
    /\ th[t].pc = "getconn"
    /\ th' = [th EXCEPT ![t] = IF pool.closed THEN [@ EXCEPT !.pc = "except"]
                               ELSE [@ EXCEPT !.pc = "getkey_store", !.k = pool.keys]]
    /\ UNCHANGED <<mainVars, jobs, queue, pool, conns, table, faults>>

\* _getkey: self._keys += 1 stores the incremented value
T_GetkeyStore(t) ==
    /\ th[t].pc = "getkey_store"
    /\ pool' = [pool EXCEPT !.keys = th[t].k + 1]
    /\ th' = [th EXCEPT ![t].pc = "getkey_return", ![t].k = 0]
    /\ UNCHANGED <<mainVars, jobs, queue, conns, table, faults>>

\* _getkey: return self._keys
T_GetkeyReturn(t) ==
    /\ th[t].pc = "getkey_return"
    /\ th' = [th EXCEPT ![t].pc = "getconn_body", ![t].key = pool.keys]
    /\ UNCHANGED <<mainVars, jobs, queue, pool, conns, table, faults>>

\* The rest of _getconn; an exception goes to the except block with conn None.
T_GetconnBody(t) ==
    /\ th[t].pc = "getconn_body"
    /\ \E r \in Allowed(getconn(pool, conns, th[t].key, maxconn(num_workers))) :
         /\ faults' = Spend(r)
         /\ pool' = r.pool
         /\ conns' = r.conns
         /\ th' = [th EXCEPT ![t].conn = r.conn, ![t].key = 0,
                             ![t].pc = IF r.conn = 0 THEN "except" ELSE "execute"]
    /\ UNCHANGED <<mainVars, jobs, queue, table>>

\* with conn.cursor() as cur: execute_values(cur, insert_sql, batch)
\* (lines 142-143)
T_Execute(t) ==
    /\ th[t].pc = "execute"
    /\ \E r \in Allowed(execute_values(conns, th[t].conn, th[t].task)) :
         /\ faults' = Spend(r)
         /\ conns' = r.conns
         /\ th' = [th EXCEPT ![t].pc = IF r.raised THEN "except" ELSE "commit"]
    /\ jobs' = [jobs EXCEPT ![th[t].task].execs = @ + 1]
    /\ UNCHANGED <<mainVars, queue, pool, table>>

\* conn.commit() (line 144)
T_Commit(t) ==
    /\ th[t].pc = "commit"
    /\ \E r \in Allowed(commit(conns, table, th[t].conn)) :
         /\ faults' = Spend(r)
         /\ conns' = r.conns
         /\ table' = r.table
         /\ th' = [th EXCEPT ![t].pc = IF r.raised THEN "except" ELSE "finally"]
         /\ jobs' = IF r.raised THEN jobs
                    ELSE [jobs EXCEPT ![th[t].task].outcome = "ok"]
    /\ UNCHANGED <<mainVars, queue, pool>>

\* except Exception as e (lines 145-148): print the error; roll back when a
\* connection was obtained.  The exception ends here unless rollback raises.
insert_batch_pool_except(t) ==
    /\ th[t].pc = "except"
    /\ jobs' = [jobs EXCEPT ![th[t].task].outcome = "failed"]
    /\ IF th[t].conn = 0
       THEN /\ th' = [th EXCEPT ![t].pc = "finally"]
            /\ UNCHANGED <<conns, faults>>
       ELSE \E r \in Allowed(rollback(conns, th[t].conn)) :
              /\ faults' = Spend(r)
              /\ conns' = r.conns
              /\ th' = [th EXCEPT ![t].pc = "finally", ![t].exc = r.raised]
    /\ UNCHANGED <<mainVars, queue, pool, table>>

T_Except(t) == insert_batch_pool_except(t)

\* A variant that puts the connection back at the end of the try block, so
\* only when the insert did not fail.
insert_batch_pool_release_on_success(t) ==
    /\ th[t].pc = "finally"
    /\ IF th[t].conn = 0 \/ jobs[th[t].task].outcome = "failed"
       THEN /\ UNCHANGED <<pool, conns, faults>>
            /\ jobs' = [jobs EXCEPT ![th[t].task].fut =
                                       IF th[t].exc THEN "exc" ELSE "ok"]
       ELSE \E r \in Allowed(putconn(pool, conns, th[t].conn)) :
              /\ faults' = Spend(r)
              /\ pool' = r.pool
              /\ conns' = r.conns
              /\ jobs' = [jobs EXCEPT ![th[t].task].fut =
                                         IF th[t].exc \/ r.raised THEN "exc" ELSE "ok"]
    /\ th' = [th EXCEPT ![t] = IdleFrame]
    /\ UNCHANGED <<mainVars, queue, table>>

\* finally (lines 149-151): put the connection back when one was obtained;
\* then the work item sets the future's result, or its exception when one is
\* propagating, and the worker is free again.
insert_batch_pool_finally(t) ==
    /\ th[t].pc = "finally"
    /\ IF th[t].conn = 0
       THEN /\ UNCHANGED <<pool, conns, faults>>
            /\ jobs' = [jobs EXCEPT ![th[t].task].fut =
                                       IF th[t].exc THEN "exc" ELSE "ok"]
       ELSE \E r \in Allowed(putconn(pool, conns, th[t].conn)) :
              /\ faults' = Spend(r)
              /\ pool' = r.pool
              /\ conns' = r.conns
              /\ jobs' = [jobs EXCEPT ![th[t].task].fut =
                                         IF th[t].exc \/ r.raised THEN "exc" ELSE "ok"]
    /\ th' = [th EXCEPT ![t] = IdleFrame]
    /\ UNCHANGED <<mainVars, queue, table>>

T_Finally(t) == insert_batch_pool_finally(t)

----------------------------------------------------------------------------
\* insert_records_concurrent (lines 169-194), the calling thread.
\* mpc: "submit" in the for loop at line 186, "collect" in the loop at line
\* 190, "shutdown" leaving the with block with an exception, "closeall"
\* after the with block, "returned", "raised".

Finished(b) == jobs[b].fut \in {"ok", "exc"}

\* One turn of the for loop (lines 186-187): the next batch is drawn from
\* the generator and submitted; the loop ends when the generator is exhausted.
M_Submit ==
    /\ mpc = "submit"
    /\ gen' = generate_batches_next(gen, num_records, batch_size)
    /\ IF Suspended(gen')
       THEN /\ jobs' = Append(jobs, NewJob(gen'.batch))
            /\ queue' = Append(queue, Len(jobs) + 1)
            /\ mpc' = mpc
       ELSE /\ UNCHANGED <<jobs, queue>>
            /\ mpc' = "collect"
    /\ UNCHANGED <<num_records, batch_size, yielded, num_workers, seqf, th,
                   pool, conns, table, faults>>

\* The loop at lines 190-191: as_completed hands over each future once it
\* has finished, in no fixed order, and future.result() returns or re-raises.
\* A turn on a future that holds a result changes nothing, so the loop is
\* modelled by its two ways out.  This one: the future handed over holds an
\* exception, which leaves the loop.
M_ResultRaises ==
    /\ mpc = "collect"
    /\ \E b \in 1..Len(jobs) : jobs[b].fut = "exc"
    /\ mpc' = "shutdown"
    /\ UNCHANGED <<genVars, num_workers, seqf, jobs, queue, th, pool, conns, table, faults>>

\* The other way out: every future was handed over and held a result; the
\* with block ends normally (executor.shutdown(wait=True) has nothing to
\* wait for).
M_ExitWith ==
    /\ mpc = "collect"
    /\ \A b \in 1..Len(jobs) : jobs[b].fut = "ok"
    /\ mpc' = "closeall"
    /\ UNCHANGED <<genVars, num_workers, seqf, jobs, queue, th, pool, conns, table, faults>>

\* A variant that lets the exception leave without joining the workers.
M_ExitWithRaiseNoJoin ==
    /\ mpc = "shutdown"
    /\ mpc' = "raised"
    /\ UNCHANGED <<genVars, num_workers, seqf, jobs, queue, th, pool, conns, table, faults>>

\* The with block ends with the exception of future.result():
\* executor.shutdown(wait=True) joins the workers, which first finish every
\* queued work item; then the exception leaves insert_records_concurrent.
M_ExitWithRaise ==
    /\ mpc = "shutdown"
    /\ queue = <<>>
    /\ \A t \in Threads : th[t].pc = "idle"
    /\ mpc' = "raised"
    /\ UNCHANGED <<genVars, num_workers, seqf, jobs, queue, th, pool, conns, table, faults>>

\* connection_pool.closeall() (line 194) and return.
M_Closeall ==
    /\ mpc = "closeall"
    /\ LET r == closeall(pool, conns)
       IN  pool' = r.pool /\ conns' = r.conns
    /\ mpc' = "returned"
    /\ UNCHANGED <<genVars, num_workers, seqf, jobs, queue, th, table, faults>>

----------------------------------------------------------------------------
\* SpecConc: one call of insert_records_concurrent.

InitConc ==
    /\ num_records \in 1..MaxConcRecords
    /\ batch_size \in 1..MaxConcRecords
    /\ num_workers \in 1..MaxWorkers
    /\ gen = generate_batches_init
    /\ yielded = <<>>
    /\ mpc = "submit"
    /\ jobs = <<>>
    /\ queue = <<>>
    /\ th = [t \in Threads |-> IdleFrame]
    /\ pool = SimpleConnectionPool
    /\ conns = <<NewConn>>
    /\ table = {}
    /\ faults = 0
    /\ seqf = NoFrame

NextConc ==
    \/ M_Submit
    \/ M_ResultRaises
    \/ M_ExitWith
    \/ M_ExitWithRaise
    \/ M_Closeall
    \/ \E t \in Threads : T_Start(t)
    \/ \E t \in Threads : T_GetconnEnter(t)
    \/ \E t \in Threads : T_GetkeyStore(t)
    \/ \E t \in Threads : T_GetkeyReturn(t)
    \/ \E t \in Threads : T_GetconnBody(t)
    \/ \E t \in Threads : T_Execute(t)
    \/ \E t \in Threads : T_Commit(t)
    \/ \E t \in Threads : T_Except(t)
    \/ \E t \in Threads : T_Finally(t)

SpecConc == InitConc /\ [][NextConc]_vars

\* SpecBacklog: one call of insert_records_concurrent with a single worker,
\* for loads of more batches than SpecConc explores.
InitBacklog ==
    /\ num_records \in 1..MaxRecords
    /\ batch_size \in 1..MaxBatch
    /\ num_workers = 1
    /\ gen = generate_batches_init
    /\ yielded = <<>>
    /\ mpc = "submit"
    /\ jobs = <<>>
    /\ queue = <<>>
    /\ th = [t \in Threads |-> IdleFrame]
    /\ pool = SimpleConnectionPool
    /\ conns = <<NewConn>>
    /\ table = {}
    /\ faults = 0
    /\ seqf = NoFrame

SpecBacklog == InitBacklog /\ [][NextConc]_vars

----------------------------------------------------------------------------
\* insert_records (lines 95-132), the sequential load on the one connection
\* main opened (connection 1).  seqf.i is the loop variable, seqf.records
\* the length of the list records.  mpc: "loop" at the for statement,
\* "execute" and "commit" at lines 118-119, "tail" at line 125,
\* "tail_execute" and "tail_commit" at lines 126-127, "returned", "raised".
\* jobs records the batches handed to execute_values, as in the concurrent
\* load.

\* One iteration of the for loop up to the test at line 117.
S_Iterate ==
    /\ mpc = "loop"
    /\ seqf.i < num_records
    /\ seqf' = [i |-> seqf.i + 1, records |-> seqf.records + 1]
    /\ mpc' = IF seqf'.i % batch_size = 0 THEN "execute" ELSE "loop"
    /\ UNCHANGED <<num_records, batch_size, gen, yielded, poolVars, jobs, conns,
                   table, faults>>

\* The loop is exhausted: on to line 125.
S_LoopEnd ==
    /\ mpc = "loop"
    /\ seqf.i >= num_records
    /\ mpc' = "tail"
    /\ UNCHANGED <<num_records, batch_size, gen, yielded, poolVars, jobs, conns,
                   table, faults, seqf>>

\* A variant that returns after the loop without inserting what is left.
S_TailDropped ==
    /\ mpc = "tail"
    /\ mpc' = "returned"
    /\ UNCHANGED <<num_records, batch_size, gen, yielded, poolVars, jobs, conns,
                   table, faults, seqf>>

\* if records: (line 125); otherwise the function returns.
S_Tail ==
    /\ mpc = "tail"
    /\ mpc' = IF seqf.records > 0 THEN "tail_execute" ELSE "returned"
    /\ UNCHANGED <<num_records, batch_size, gen, yielded, poolVars, jobs, conns,
                   table, faults, seqf>>

\* A variant of the insert that reports a failure and goes on to the commit.
insert_records_execute_goes_on(r) ==
    /\ mpc' = IF mpc = "execute" THEN "commit" ELSE "tail_commit"
    /\ jobs' = Append(jobs, [NewJob(seqf.records) EXCEPT
                               !.fut = "running", !.started = 1, !.execs = 1,
                               !.outcome = IF r.raised THEN "failed" ELSE "none"])

\* execute_values(cur, insert_sql, records) at line 118 or 126, with result
\* r: nothing catches an exception, which leaves insert_records.
insert_records_execute(r) ==
    /\ mpc' = IF r.raised THEN "raised"
              ELSE IF mpc = "execute" THEN "commit" ELSE "tail_commit"
    /\ jobs' = Append(jobs, [NewJob(seqf.records) EXCEPT
                               !.fut = IF r.raised THEN "exc" ELSE "running",
                               !.started = 1, !.execs = 1,
                               !.outcome = IF r.raised THEN "failed" ELSE "none"])

S_Execute ==
    /\ mpc \in {"execute", "tail_execute"}
    /\ \E r \in Allowed(execute_values(conns, 1, Len(jobs) + 1)) :
         /\ faults' = Spend(r)
         /\ conns' = r.conns
         /\ insert_records_execute(r)
    /\ UNCHANGED <<num_records, batch_size, gen, yielded, poolVars, table, seqf>>

\* conn.commit() at line 119 or 127; after line 119 records is reset (line
\* 122) and the loop goes on; after line 127 the function returns.
S_Commit ==
    /\ mpc \in {"commit", "tail_commit"}
    /\ \E r \in Allowed(commit(conns, table, 1)) :
         /\ faults' = Spend(r)
         /\ conns' = r.conns
         /\ table' = r.table
         /\ jobs' = [jobs EXCEPT ![Len(jobs)].outcome = IF r.raised THEN "failed" ELSE "ok",
                                 ![Len(jobs)].fut = IF r.raised THEN "exc" ELSE "ok"]
         /\ mpc' = IF r.raised THEN "raised"
                   ELSE IF mpc = "commit" THEN "loop" ELSE "returned"
         /\ seqf' = IF ~r.raised /\ mpc = "commit"
                    THEN [seqf EXCEPT !.records = 0] ELSE seqf
    /\ UNCHANGED <<num_records, batch_size, gen, yielded, poolVars>>

\* SpecSeq: one call of insert_records.
InitSeq ==
    /\ num_records \in 1..MaxRecords
    /\ batch_size \in 1..MaxBatch
    /\ num_workers = 1
    /\ gen = generate_batches_init
    /\ yielded = <<>>
    /\ mpc = "loop"
    /\ jobs = <<>>
    /\ queue = <<>>
    /\ th = [t \in Threads |-> IdleFrame]
    /\ pool = SimpleConnectionPool
    /\ conns = <<NewConn>>
    /\ table = {}
    /\ faults = 0
    /\ seqf = NoFrame

NextSeq ==
    \/ S_Iterate
    \/ S_LoopEnd
    \/ S_Tail
    \/ S_Execute
    \/ S_Commit

SpecSeq == InitSeq /\ [][NextSeq]_vars

----------------------------------------------------------------------------
\* simulate_production (lines 196-217) on the connection main opened
\* (connection 1), and what main does after it (line 305).  A tick is one
\* turn of the while loop; jobs holds one entry per tick that reached
\* execute_values.  seqf.records is len(records), seqf.i the number of pages
\* of the tick's batch already sent.  The table and the open transaction hold
\* pages <<tick, page>>.  mpc: "sim_generate" in lines 204-210,
\* "sim_execute" in execute_values (line 212), "sim_commit" at line 213,
\* "sim_sleep" at line 215, "sim_stopped" after the except block,
\* "sim_raised" an exception other than KeyboardInterrupt is propagating,
\* "returned" main has closed the connection, "raised" the exception has
\* ended the process.

\* The number of pages execute_values cuts a batch of n records into.
Pages(n) == (n + PageSize - 1) \div PageSize

Running == mpc \in {"sim_generate", "sim_execute", "sim_commit", "sim_sleep"}

\* One iteration of the for loop (lines 206-209): a record is appended.  The
\* loop is explored for MaxTicks ticks.
Sim_Append ==
    /\ mpc = "sim_generate"
    /\ seqf.records < batch_size
    /\ Len(jobs) < MaxTicks
    /\ seqf' = [seqf EXCEPT !.records = @ + 1]
    /\ UNCHANGED <<num_records, batch_size, gen, yielded, poolVars, mpc, jobs,
                   conns, table, faults>>

\* The for loop is exhausted: a cursor is opened and execute_values is
\* called with the batch (lines 210-212).
Sim_CallExecute ==
    /\ mpc = "sim_generate"
    /\ seqf.records = batch_size
    /\ mpc' = "sim_execute"
    /\ jobs' = Append(jobs, [NewJob(seqf.records) EXCEPT !.fut = "running",
                                                         !.started = 1])
    /\ UNCHANGED <<num_records, batch_size, gen, yielded, poolVars, conns, table,
                   faults, seqf>>

\* A variant on a connection in autocommit mode: every statement is
\* committed as soon as it has run.
simulate_production_execute_autocommit(r) ==
    /\ conns' = IF r.raised THEN r.conns ELSE [r.conns EXCEPT ![1] = NewConn]
    /\ table' = IF r.raised THEN table ELSE table \cup r.conns[1].pending
    /\ IF r.raised
       THEN mpc' = "sim_raised" /\ seqf' = seqf
       ELSE /\ seqf' = [seqf EXCEPT !.i = @ + 1]
            /\ mpc' = IF seqf'.i = Pages(seqf.records) THEN "sim_commit" ELSE mpc

\* execute_values sends the next page of the batch as one INSERT statement,
\* with result r: the page joins the open transaction; nothing catches an
\* exception of the statement, which leaves the loop.
simulate_production_execute(r) ==
    /\ conns' = r.conns
    /\ table' = table
    /\ IF r.raised
       THEN mpc' = "sim_raised" /\ seqf' = seqf
       ELSE /\ seqf' = [seqf EXCEPT !.i = @ + 1]
            /\ mpc' = IF seqf'.i = Pages(seqf.records) THEN "sim_commit" ELSE mpc

\* Each statement of execute_values acts on the connection as the
\* single-statement call modelled by execute_values above.
Sim_ExecutePage ==
    /\ mpc = "sim_execute"
    /\ \E r \in Allowed(execute_values(conns, 1, <<Len(jobs), seqf.i + 1>>)) :
         /\ faults' = Spend(r)
         /\ simulate_production_execute(r)
    /\ jobs' = [jobs EXCEPT ![Len(jobs)].execs = @ + 1]
    /\ UNCHANGED <<num_records, batch_size, gen, yielded, poolVars>>

\* conn.commit() (line 213); an exception leaves the loop.
Sim_Commit ==
    /\ mpc = "sim_commit"
    /\ \E r \in Allowed(commit(conns, table, 1)) :
         /\ faults' = Spend(r)
         /\ conns' = r.conns
         /\ table' = r.table
         /\ jobs' = [jobs EXCEPT ![Len(jobs)].outcome = IF r.raised THEN "failed" ELSE "ok",
                                 ![Len(jobs)].fut = IF r.raised THEN "exc" ELSE "ok"]
         /\ mpc' = IF r.raised THEN "sim_raised" ELSE "sim_sleep"
    /\ UNCHANGED <<num_records, batch_size, gen, yielded, poolVars, seqf>>

\* time.sleep(delay) returns (line 215) and the next turn of the while loop
\* begins: records = [] (line 205).
Sim_Sleep ==
    /\ mpc = "sim_sleep"
    /\ mpc' = "sim_generate"
    /\ seqf' = NoFrame
    /\ UNCHANGED <<num_records, batch_size, gen, yielded, poolVars, jobs, conns,
                   table, faults>>

\* Ctrl+C: KeyboardInterrupt is raised in the main thread wherever it is
\* inside the try block, between two statements of the loop or between two
\* pages of execute_values; the except clause at line 216 catches it and
\* simulate_production returns.
Sim_KeyboardInterrupt ==
    /\ Running
    /\ mpc' = "sim_stopped"
    /\ UNCHANGED <<num_records, batch_size, gen, yielded, poolVars, jobs, conns,
                   table, faults, seqf>>

\* main, line 305: conn.close() discards the open transaction, if any.
Sim_Close ==
    /\ mpc = "sim_stopped"
    /\ conns' = [conns EXCEPT ![1] = [status |-> "CLOSED", pending |-> {}]]
    /\ mpc' = "returned"
    /\ UNCHANGED <<num_records, batch_size, gen, yielded, poolVars, jobs, table,
                   faults, seqf>>

\* An exception other than KeyboardInterrupt is caught neither by
\* simulate_production nor by main: the process ends and its connection
\* goes with it.
Sim_Uncaught ==
    /\ mpc = "sim_raised"
    /\ conns' = Lose(conns, 1)
    /\ mpc' = "raised"
    /\ UNCHANGED <<num_records, batch_size, gen, yielded, poolVars, jobs, table,
                   faults, seqf>>

\* SpecSim: one call of simulate_production from main.
InitSim ==
    /\ num_records = 0
    /\ batch_size \in 1..MaxBatch
    /\ num_workers = 1
    /\ gen = generate_batches_init
    /\ yielded = <<>>
    /\ mpc = "sim_generate"
    /\ jobs = <<>>
    /\ queue = <<>>
    /\ th = [t \in Threads |-> IdleFrame]
    /\ pool = SimpleConnectionPool
    /\ conns = <<NewConn>>
    /\ table = {}
    /\ faults = 0
    /\ seqf = NoFrame

NextSim ==
    \/ Sim_Append
    \/ Sim_CallExecute
    \/ Sim_ExecutePage
    \/ Sim_Commit
    \/ Sim_Sleep
    \/ Sim_KeyboardInterrupt
    \/ Sim_Close
    \/ Sim_Uncaught

SpecSim == InitSim /\ [][NextSim]_vars

----------------------------------------------------------------------------
\* SpecGen: the sequencer alone, consumed to exhaustion.

InitGen ==
    /\ num_records \in 1..MaxRecords
    /\ batch_size \in 1..MaxBatch
    /\ gen = generate_batches_init
    /\ yielded = <<>>
    /\ num_workers = 1
    /\ mpc = "generate"
    /\ jobs = <<>>
    /\ queue = <<>>
    /\ th = [t \in Threads |-> IdleFrame]
    /\ pool = SimpleConnectionPool
    /\ conns = <<>>
    /\ table = {}
    /\ faults = 0
    /\ seqf = NoFrame

\* The generator executes one step; a batch it yields is recorded.
GenStep ==
    /\ gen.pos # "done"
    /\ gen' = generate_batches_step(gen, num_records, batch_size)
    /\ yielded' = IF Suspended(gen') THEN Append(yielded, gen'.batch) ELSE yielded
    /\ UNCHANGED <<num_records, batch_size, concVars, seqf>>

NextGen == GenStep

SpecGen == InitGen /\ [][NextGen]_vars

----------------------------------------------------------------------------
RECURSIVE SumSeq(_)
SumSeq(s) == IF s = <<>> THEN 0 ELSE Head(s) + SumSeq(Tail(s))

CeilDiv(a, b) == (a + b - 1) \div b

\* C2: generate_batches yields exactly ceil(total/batch_size) batches whose
\* sizes sum to total; all but the last have batch_size records, the last has
\* total mod batch_size records if that is nonzero and batch_size otherwise;
\* no empty batch is ever yielded.
C2_BatchPartition ==
    /\ \A k \in 1..Len(yielded) : yielded[k] > 0
    /\ gen.pos = "done" =>
        /\ Len(yielded) = CeilDiv(num_records, batch_size)
        /\ SumSeq(yielded) = num_records
        /\ \A k \in 1..(Len(yielded) - 1) : yielded[k] = batch_size
        /\ yielded[Len(yielded)] =
             IF num_records % batch_size # 0
             THEN num_records % batch_size ELSE batch_size

\* A run with full batches followed by a shorter remainder has finished.
C2_Witness ==
    /\ gen.pos = "done"
    /\ Len(yielded) >= 2
    /\ num_records % batch_size # 0
    /\ yielded[Len(yielded)] < batch_size

----------------------------------------------------------------------------
\* Claims about the concurrent load (SpecConc).

Batches == 1..Len(jobs)
Done == mpc \in {"returned", "raised"}
RowCount == SumSeq([b \in Batches |-> IF b \in table THEN jobs[b].size ELSE 0])
ExecCalls == SumSeq([b \in Batches |-> jobs[b].execs])

\* C1: when the insert of a batch failed, the driver raises to its caller
\* once all batches were attempted; it returns normally only when every
\* batch committed.
C1_FailureIsSurfaced ==
    mpc = "returned" => \A b \in Batches : jobs[b].outcome = "ok"

\* C3: every batch of the sequencer is attempted exactly once: a failed
\* insert does not keep the other batches from being dispatched, attempted
\* and committed, and no batch is submitted again.
C3_EachBatchOnce ==
    /\ \A b \in Batches : jobs[b].started <= 1 /\ jobs[b].execs <= 1
    /\ Done =>
         /\ Len(jobs) = CeilDiv(num_records, batch_size)
         /\ \A b \in Batches : jobs[b].started = 1
         /\ \A b \in Batches : jobs[b].outcome = "ok" => b \in table

\* C4: no connection is held by two workers at the same time.
C4_ConnectionNotShared ==
    \A t1, t2 \in Threads :
        (t1 # t2 /\ th[t1].conn # 0) => th[t1].conn # th[t2].conn

C6_PoolClosedAtEnd ==
    Done => pool.closed

C8_AllRowsCommitted ==
    (Done /\ faults = 0) =>
        /\ RowCount = num_records
        /\ ExecCalls = CeilDiv(num_records, batch_size)

\* C9: a batch is atomic in the table: when its insert succeeded its rows
\* are in the table, when it failed none of them is.
C9_BatchAtomic ==
    \A b \in Batches :
        /\ (Finished(b) /\ jobs[b].outcome = "ok") => b \in table
        /\ jobs[b].outcome = "failed" => b \notin table

\* C11: insert_records_concurrent does not come back to its caller, with a
\* return or with an error, while a dispatched batch is still queued or
\* running: every dispatched batch has finished by then.
C11_AllFinishedAtReturn ==
    Done => /\ queue = <<>>
            /\ \A t \in Threads : th[t].pc = "idle"
            /\ \A b \in Batches : Finished(b)

\* The driver has come back with the error of one batch, and the other
\* batch, dispatched with it, has finished as well.
C11_Witness ==
    /\ mpc = "raised"
    /\ Len(jobs) = 2
    /\ \E b \in Batches : jobs[b].fut = "exc"
    /\ \E b \in Batches : jobs[b].fut = "ok" /\ jobs[b].outcome = "ok"
    /\ queue = <<>>

\* C14: a connection is never released with an open or aborted transaction:
\* whenever insert_batch_pool calls putconn, the commit has succeeded or the
\* except block has issued its rollback on that connection, and the
\* connection has no transaction in progress.
C14_ReleasedWithoutTransaction ==
    [][\A t \in Threads :
         (th[t].pc = "finally" /\ th[t].conn # 0 /\ th'[t].pc = "idle") =>
            /\ jobs[th[t].task].outcome \in {"ok", "failed"}
            /\ conns[th[t].conn].status \in {"IDLE", "CLOSED"}]_vars

\* Records of the batches that were generated and submitted and that no
\* call of insert_batch_pool has been given yet.
Backlog == SumSeq([b \in Batches |-> IF jobs[b].started = 0 THEN jobs[b].size ELSE 0])

\* C15: the load never holds the full record set: the sequencer holds at
\* most batch_size records, and the records generated and not yet passed to
\* an insert call are bounded by a number that does not depend on
\* num_records (one batch per worker and one more for the sequencer).
C15_BoundedBacklog ==
    /\ gen.batch <= batch_size
    /\ Backlog <= batch_size * (num_workers + 1)

----------------------------------------------------------------------------
\* Claims about the sequential load (SpecSeq).

RECURSIVE SizesUpTo(_)
SizesUpTo(b) == IF b = 0 THEN 0 ELSE jobs[b].size + SizesUpTo(b - 1)

\* C10: in insert_records a failing batch insert is fatal at once: the error
\* reaches the caller, and no record and no batch after the failing one is
\* generated or attempted.
C10_SequentialFailFast ==
    \A b \in Batches :
        jobs[b].outcome = "failed" =>
            /\ mpc = "raised"
            /\ b = Len(jobs)
            /\ seqf.i = SizesUpTo(b)
            /\ \A a \in 1..(b - 1) : jobs[a].outcome = "ok"

\* The second batch of a load of several failed and the load has stopped
\* there, with records still to insert.
C10_Witness ==
    /\ mpc = "raised"
    /\ Len(jobs) = 2
    /\ jobs[2].outcome = "failed"
    /\ seqf.i < num_records

\* The sizes of the batches generate_batches(n, bs) yields from frame g on,
\* in order.
RECURSIVE YieldsFrom(_, _, _)
YieldsFrom(g, n, bs) ==
    LET g2 == generate_batches_next(g, n, bs)
    IN  IF Suspended(g2) THEN <<g2.batch>> \o YieldsFrom(g2, n, bs) ELSE <<>>

\* The sizes of the insert-and-commit calls insert_records has made.
InsertSizes == [b \in Batches |-> jobs[b].size]

\* C17: insert_records batches as generate_batches does: the sizes of its
\* insert-and-commit calls are, in order, the sizes generate_batches yields
\* for the same num_records and batch_size; all of them once it has
\* returned, the first of them while it runs or when it has raised.
C17_SameBatchingAsSequencer ==
    LET Y == YieldsFrom(generate_batches_init, num_records, batch_size)
    IN  /\ Len(InsertSizes) <= Len(Y)
        /\ InsertSizes = SubSeq(Y, 1, Len(InsertSizes))
        /\ mpc = "returned" =>
              /\ InsertSizes = Y
              /\ \A b \in Batches : jobs[b].outcome = "ok"

\* A load of full batches and a shorter last one has returned.
C17_Witness ==
    /\ mpc = "returned"
    /\ Len(jobs) >= 3
    /\ jobs[1].size = batch_size
    /\ jobs[Len(jobs)].size < batch_size
    /\ \A b \in Batches : jobs[b].outcome = "ok"

----------------------------------------------------------------------------
\* Claims about the simulation loop (SpecSim).

\* C12: the simulation loop leaves its running state only on the
\* cancellation signal: every step that takes it out of the loop is the
\* KeyboardInterrupt being caught, never a failing insert or commit.
C12_StopsOnlyOnCancel ==
    [][(Running /\ ~Running') => mpc' = "sim_stopped"]_vars

\* The pages of tick b that are committed in the table.
VisiblePages(b) == {p \in 1..Pages(jobs[b].size) : <<b, p>> \in table}

\* C13: a cancellation signal at any point of a tick ends the loop: no tick
\* is started and nothing is inserted or committed after it, control goes
\* back to main, which closes the connection; and the batch of every tick,
\* the one in flight included, is at every moment committed as a whole or
\* not visible at all.
C13_CancelIsClean ==
    /\ [](\A b \in Batches :
            VisiblePages(b) \in {{}, 1..Pages(jobs[b].size)})
    /\ [][(mpc \in {"sim_stopped", "returned"}) =>
            /\ mpc' = "returned"
            /\ jobs' = jobs /\ table' = table /\ seqf' = seqf]_vars
    /\ [](mpc = "returned" => conns[1] = [status |-> "CLOSED", pending |-> {}])

\* The signal came in the second tick between two pages of its batch: the
\* loop has ended and main has closed the connection; the first batch is
\* committed, the second is not visible.
C13_Witness ==
    /\ mpc = "returned"
    /\ Len(jobs) = 2
    /\ VisiblePages(1) = 1..Pages(jobs[1].size)
    /\ Pages(jobs[2].size) >= 2
    /\ seqf.i >= 1 /\ seqf.i < Pages(jobs[2].size)
    /\ VisiblePages(2) = {}

====
